---- MODULE Spec2Model ----
(***************************************************************************)
(* Model of app.py, the Streamlit coverage and planning dashboard.         *)
(*                                                                         *)
(* The script is re-executed from top to bottom on every widget            *)
(* interaction; st.session_state is the only state that survives a rerun.  *)
(* One action of the model is one complete run of the script.              *)
(*                                                                         *)
(* Coordinates.  The script converts kilometres to degrees with            *)
(* dx / 111 (latitude) and dy / (111 * cos(radians(lat))) (longitude).     *)
(* The model measures latitude and longitude in exactly these units, as    *)
(* integer offsets from the sidebar defaults (6.5244, 3.3792): a latitude  *)
(* of n stands for 6.5244 + n/111 degrees, a longitude of n for            *)
(* 3.3792 + n/(111 cos 6.5244) degrees.  Every point of the model lies     *)
(* within two hundred of these units of the origin.                        *)
(*                                                                         *)
(* Distances are integers in units of 10 m, rounded up, so a comparison    *)
(* of a distance with a whole number of kilometres is decided exactly as   *)
(* on the real value.                                                      *)
(***************************************************************************)
EXTENDS Integers, Sequences, FiniteSets, TLC

VARIABLES
    df,             \* the loaded site table (load_csv), a sequence of rows
    lat,            \* sidebar latitude input
    lon,            \* sidebar longitude input
    radius_km,      \* sidebar radius slider
    analyze,        \* value of the Analyze button in the last run
    distance_km,    \* the distance_km column this run put on df, or None
    session_state,  \* st.session_state: analysis_done, nearby, lat, lon, radius_km
    page            \* what the last run rendered

vars == <<df, lat, lon, radius_km, analyze, distance_km, session_state, page>>

----------------------------------------------------------------------------
(* Bounds of the model *)

\* the most rows a site table has
MaxSites == 2

\* the rows a site table is made of: sites at the origin and about 4 km
\* south-west of it, and a site about 42 km south-west of it
Site(la, lo, op, tech) ==
    [Latitude |-> la, Longitude |-> lo,
     Network_Operator |-> op, Network_Generation |-> tech]

Rows ==
    { Site(0, 0, "MTN Nigeria", "2G"), Site(0, 0, "MTN Nigeria", "4G"),
      Site(0, 0, "Globacom", "4G"),
      Site(-3, -3, "MTN Nigeria", "2G"), Site(-3, -3, "MTN Nigeria", "4G"),
      Site(-30, -30, "Globacom", "4G") }

\* the values the user sets the sidebar to
Latitudes == { 0, -3 }
Longitudes == { 0, -3 }
Radii == { 5, 25, 30 }

----------------------------------------------------------------------------
(* Python values *)

None == << >>
Some(v) == << v >>
Get(o) == o[1]

\* Python's range(start, stop, step) for step > 0, as a sequence
RECURSIVE range(_, _, _)
range(start, stop, step) ==
    IF start >= stop THEN << >>
    ELSE << start >> \o range(start + step, stop, step)

\* str comparison on the technology labels the table holds
StrRank(s) ==
    CASE s = "2G" -> 1
      [] s = "3G" -> 2
      [] s = "4G" -> 3
      [] OTHER -> 4

Abs(n) == IF n < 0 THEN -n ELSE n

\* least g with g * g >= x, by Newton's iteration from a start value
\* g0 with g0 * g0 >= x
RECURSIVE NewtonSqrt(_, _)
NewtonSqrt(x, g) ==
    LET h == (g + x \div g) \div 2
    IN  IF h >= g THEN (IF g * g = x THEN g ELSE g + 1)
        ELSE NewtonSqrt(x, h)

----------------------------------------------------------------------------
(* haversine_np *)

\* (6371 * pi / 180 / 111)^2 * 10^4: the square of the length, in units of
\* 10 m, of one coordinate unit (1/111 degree of a great circle of radius
\* R = 6371 km)
UnitSq == 10035

\* Great-circle distance between (lat1, lon1) and (lat2, lon2) in units of
\* 10 m, rounded up.  Within the few hundred kilometres of the model the
\* haversine formula is evaluated in its small-angle form
\* R * sqrt(dlat^2 + cos(lat1) cos(lat2) dlon^2), where the longitude unit
\* already carries the factor 1 / cos(lat).
haversine(lat1, lon1, lat2, lon2) ==
    LET dlat == Abs(lat2 - lat1)
        dlon == Abs(lon2 - lon1)
        a == UnitSq * (dlat * dlat + dlon * dlon)
        \* an upper estimate of sqrt(a): 101 * (longer side + half the shorter)
        g0 == IF dlat >= dlon THEN 101 * dlat + 51 * dlon
              ELSE 101 * dlon + 51 * dlat
    IN  IF a = 0 THEN 0 ELSE NewtonSqrt(a, g0)

\* the vectorised call: one distance per row of the table
haversine_np(qlat, qlon, table) ==
    [i \in 1..Len(table) |->
        haversine(qlat, qlon, table[i].Latitude, table[i].Longitude)]

\* a whole number of kilometres in the distance unit
Km(n) == 100 * n

MIN_SIGNAL_KM == 8

----------------------------------------------------------------------------
(* RUN ANALYSIS *)

\* df with the distance_km column assigned: each row with its index label
WithDistance(table, dist) ==
    [i \in 1..Len(table) |->
        [idx |-> i,
         Latitude |-> table[i].Latitude,
         Longitude |-> table[i].Longitude,
         Network_Operator |-> table[i].Network_Operator,
         Network_Generation |-> table[i].Network_Generation,
         distance_km |-> dist[i]]]

\* Mutant: the mask compares the wrong way round.
WithinRadius_inverted(frame, r) ==
    SelectSeq(frame, LAMBDA row : row.distance_km >= Km(r))

\* stable insertion of a row into a sequence sorted by distance_km
RECURSIVE InsertByDistance(_, _)
InsertByDistance(row, sorted) ==
    IF sorted = << >> THEN << row >>
    ELSE IF row.distance_km < Head(sorted).distance_km THEN << row >> \o sorted
    ELSE << Head(sorted) >> \o InsertByDistance(row, Tail(sorted))

RECURSIVE SortByDistance(_)
SortByDistance(frame) ==
    IF frame = << >> THEN << >>
    ELSE InsertByDistance(frame[Len(frame)],
                          SortByDistance(SubSeq(frame, 1, Len(frame) - 1)))

\* Mutant: the retained rows are sorted by ascending distance.
WithinRadius_sorted(frame, r) ==
    SortByDistance(SelectSeq(frame, LAMBDA row : row.distance_km <= Km(r)))

\* frame[frame["distance_km"] <= r]: a boolean mask keeps the selected rows
\* in the order of the frame
WithinRadius(frame, r) ==
    SelectSeq(frame, LAMBDA row : row.distance_km <= Km(r))

\* Mutant: latitude and longitude are stored under each other's key.
RunAnalysis_swapped(table, qlat, qlon, r) ==
    LET dist == haversine_np(qlat, qlon, table)
        nearby == SelectSeq(WithDistance(table, dist),
                            LAMBDA row : row.distance_km <= Km(r))
    IN  [analysis_done |-> Some(TRUE),
         nearby |-> Some(nearby),
         lat |-> Some(qlon),
         lon |-> Some(qlat),
         radius_km |-> Some(r)]

\* the session state an Analyze run leaves behind
RunAnalysis(table, qlat, qlon, r) ==
    LET dist == haversine_np(qlat, qlon, table)
        nearby == WithinRadius(WithDistance(table, dist), r)
    IN  [analysis_done |-> Some(TRUE),
         nearby |-> Some(nearby),
         lat |-> Some(qlat),
         lon |-> Some(qlon),
         radius_km |-> Some(r)]

----------------------------------------------------------------------------
(* DISPLAY RESULTS *)

\* what a run that renders nothing but the prompt leaves on the page
EmptyPage ==
    [outcome |-> "prompt",
     view |-> None,
     shown |-> {"prompt"},
     nearest_idx |-> None,
     midpoint2 |-> None,
     total_sites |-> None,
     operator_summary |-> << >>,
     uncovered |-> << >>,
     tower |-> None,
     rec |-> None]

\* numpy argmin: the first index of the least value; raises on an empty array
argmin(a) ==
    CHOOSE i \in 1..Len(a) :
        /\ \A j \in 1..Len(a) : a[i] <= a[j]
        /\ \A j \in 1..(i - 1) : a[j] > a[i]

Min(a) == a[argmin(a)]

\* NO COVERAGE CASE.  v holds the locals nearby, lat, lon, radius_km.
NoCoverage(table, v) ==
    IF Len(table) = 0
    THEN \* all_distances.argmin() raises ValueError after the warning
         [EmptyPage EXCEPT !.outcome = "error",
                           !.view = Some([lat |-> v.lat, lon |-> v.lon,
                                          radius_km |-> v.radius_km]),
                           !.shown = {"no_coverage_warning", "exception"}]
    ELSE LET all_distances == haversine_np(v.lat, v.lon, table)
             nearest_idx == argmin(all_distances)
             nearest_site == table[nearest_idx]
         IN  [EmptyPage EXCEPT
                 !.outcome = "no_coverage",
                 !.view = Some([lat |-> v.lat, lon |-> v.lon,
                                radius_km |-> v.radius_km]),
                 !.shown = {"no_coverage_warning", "nearest_site",
                            "suggested_new_tower", "recommended_operator",
                            "recommended_technology"},
                 !.nearest_idx = Some(nearest_idx),
                 \* twice the midpoint (lat + site) / 2, to stay in integers
                 !.midpoint2 = Some(<<v.lat + nearest_site.Latitude,
                                      v.lon + nearest_site.Longitude>>)]

RECURSIVE SumSeq(_)
SumSeq(a) == IF a = << >> THEN 0 ELSE Head(a) + SumSeq(Tail(a))

\* Mutant: among the most frequent technologies the one with the lower
\* mean distance is taken, and the lexicographically first only after that.
ModeFirst_nearest(rows) ==
    LET techs == { rows[i].Network_Generation : i \in 1..Len(rows) }
        of(t) == SelectSeq(rows, LAMBDA row : row.Network_Generation = t)
        total(t) == SumSeq([i \in 1..Len(of(t)) |-> of(t)[i].distance_km])
        modes == { t \in techs : \A u \in techs : Len(of(u)) <= Len(of(t)) }
        nearest == { t \in modes : \A u \in modes : total(t) <= total(u) }
    IN  CHOOSE t \in nearest : \A u \in nearest : StrRank(t) <= StrRank(u)

\* pandas Series.mode()[0]: the most frequent value; mode() returns the
\* most frequent values sorted ascending, [0] takes the first
ModeFirst(rows) ==
    LET techs == { rows[i].Network_Generation : i \in 1..Len(rows) }
        n(t) == Len(SelectSeq(rows, LAMBDA row : row.Network_Generation = t))
        modes == { t \in techs : \A u \in techs : n(u) <= n(t) }
    IN  CHOOSE t \in modes : \A u \in modes : StrRank(t) <= StrRank(u)

\* OPERATOR SUMMARY: groupby("Network_Operator").agg(count, mean, mode()[0])
OperatorSummary(nearby) ==
    LET ops == { nearby[i].Network_Operator : i \in 1..Len(nearby) }
        group(op) == SelectSeq(nearby, LAMBDA row : row.Network_Operator = op)
    IN  [op \in ops |->
            [Sites |-> Len(group(op)),
             Avg_Distance_km |->
                 SumSeq([i \in 1..Len(group(op)) |-> group(op)[i].distance_km])
                     \div Len(group(op)),
             Dominant_Tech |-> ModeFirst(group(op))]]

\* Mutant: the loops run over the diameter instead of the radius.
GridPoints_diameter(qlat, qlon, r) ==
    LET steps == range(-2 * r, 2 * r + 1, 15)
        n == Len(steps)
    IN  [k \in 1..(n * n) |->
            <<qlat + steps[((k - 1) \div n) + 1],
              qlon + steps[((k - 1) % n) + 1]>>]

\* the grid points of the scan, in the order the nested loops visit them
GridPoints(qlat, qlon, r) ==
    LET steps == range(-r, r + 1, 15)
        n == Len(steps)
    IN  [k \in 1..(n * n) |->
            <<qlat + steps[((k - 1) \div n) + 1],
              qlon + steps[((k - 1) % n) + 1]>>]

\* Mutant: the distances are measured to the retained sites only.
IsUncovered_nearby(table, v, g) ==
    LET distances == haversine_np(g[1], g[2], v.nearby)
    IN  IF Len(distances) = 0 THEN FALSE
        ELSE Min(distances) > Km(MIN_SIGNAL_KM)

\* the test of one grid point: it is appended to uncovered when TRUE
IsUncovered(table, v, g) ==
    LET distances == haversine_np(g[1], g[2], table)
    IN  IF Len(distances) = 0 THEN FALSE
        ELSE Min(distances) > Km(MIN_SIGNAL_KM)

\* COVERAGE GAP: the list uncovered after the scan
CoverageGap(table, v) ==
    SelectSeq(GridPoints(v.lat, v.lon, v.radius_km),
              LAMBDA g : IsUncovered(table, v, g))

\* Mutant: the last uncovered cell is suggested.
SuggestedTower_last(uncovered) == uncovered[Len(uncovered)]

\* the tower the planning section suggests: uncovered[0]
SuggestedTower(uncovered) == Head(uncovered)

Recommendation(r) ==
    IF r <= 15 THEN "4G (Urban high-capacity)"
    ELSE IF r <= 40 THEN "3G + 4G (Suburban)"
    ELSE "2G + 3G (Rural)"

\* the lines of the page that state that coverage gaps were found
GapStatements == {"gaps_detected", "suggested_tower", "summary_gaps_detected"}

\* COVERAGE CASE
Coverage(table, v) ==
    LET uncovered == CoverageGap(table, v)
        gaps == uncovered # << >>
    IN  [EmptyPage EXCEPT
            !.outcome = "coverage",
            !.view = Some([lat |-> v.lat, lon |-> v.lon,
                           radius_km |-> v.radius_km]),
            !.shown = {"coverage_statistics", "coverage_map",
                       "technology_summary", "operator_summary",
                       "coverage_density", "gap_map", "export",
                       "operational_summary", "summary_gaps_detected"}
                      \cup (IF gaps THEN {"gaps_detected", "suggested_tower",
                                          "recommended_deployment"}
                            ELSE {}),
            !.total_sites = Some(Len(v.nearby)),
            !.operator_summary = OperatorSummary(v.nearby),
            !.uncovered = uncovered,
            !.tower = IF gaps THEN Some(SuggestedTower(uncovered)) ELSE None,
            !.rec = IF gaps THEN Some(Recommendation(v.radius_km)) ELSE None]

\* Mutant: lines 135-138 are missing, the page is rendered from the
\* sidebar's values.
Display_sidebar(table, ss, la, lo, r) ==
    IF ss.analysis_done = Some(TRUE)
    THEN LET v == [nearby |-> Get(ss.nearby), lat |-> la, lon |-> lo,
                   radius_km |-> r]
         IN  IF Len(v.nearby) = 0 THEN NoCoverage(table, v)
             ELSE Coverage(table, v)
    ELSE EmptyPage

\* lines 134-288: render the page.  la, lo, r are the script's variables
\* lat, lon, radius_km as the sidebar set them; lines 135-138 rebind them
\* (and nearby) from the session state before anything is rendered.
Display(table, ss, la, lo, r) ==
    IF ss.analysis_done = Some(TRUE)
    THEN LET v == [nearby |-> Get(ss.nearby), lat |-> Get(ss.lat),
                   lon |-> Get(ss.lon), radius_km |-> Get(ss.radius_km)]
         IN  IF Len(v.nearby) = 0 THEN NoCoverage(table, v)
             ELSE Coverage(table, v)
    ELSE EmptyPage

----------------------------------------------------------------------------
(* The script *)

Tables == UNION { [1..n -> Rows] : n \in 0..MaxSites }

\* lines 113-115: keys that are missing are set to None
NoSession ==
    [analysis_done |-> None, nearby |-> None, lat |-> None, lon |-> None,
     radius_km |-> None]

\* One run of the script with the sidebar at (la, lo, r) and the Analyze
\* button at pressed.
Script(la, lo, r, pressed) ==
    /\ lat' = la
    /\ lon' = lo
    /\ radius_km' = r
    /\ analyze' = pressed
    /\ df' = df
    /\ distance_km' = IF pressed THEN Some(haversine_np(la, lo, df)) ELSE None
    /\ session_state' = IF pressed THEN RunAnalysis(df, la, lo, r)
                        ELSE session_state
    /\ page' = Display(df, session_state', la, lo, r)

\* the first run: sidebar defaults, no button pressed, empty session
Init ==
    /\ df \in Tables
    /\ lat = 0
    /\ lon = 0
    /\ radius_km = 30
    /\ analyze = FALSE
    /\ distance_km = None
    /\ session_state = NoSession
    /\ page = EmptyPage

SetLatitude == \E la \in Latitudes \ {lat} : Script(la, lon, radius_km, FALSE)

SetLongitude == \E lo \in Longitudes \ {lon} : Script(lat, lo, radius_km, FALSE)

SetRadius == \E r \in Radii \ {radius_km} : Script(lat, lon, r, FALSE)

PressAnalyze == Script(lat, lon, radius_km, TRUE)

Next == SetLatitude \/ SetLongitude \/ SetRadius \/ PressAnalyze

Spec == Init /\ [][Next]_vars

----------------------------------------------------------------------------
(* Vocabulary of the properties *)

Analysed == session_state.analysis_done = Some(TRUE)

\* the values the last Analyze press stored
StoredNearby == Get(session_state.nearby)
StoredLat == Get(session_state.lat)
StoredLon == Get(session_state.lon)
StoredRadius == Get(session_state.radius_km)

\* distance from a point to row i of the site table
DistTo(qlat, qlon, i) ==
    haversine(qlat, qlon, df[i].Latitude, df[i].Longitude)

\* the index labels of a frame
Idx(frame) == { frame[k].idx : k \in 1..Len(frame) }

\* row k of a frame is row idx of the site table with its distance to (qlat, qlon)
IsRowOf(row, qlat, qlon) ==
    /\ row.idx \in 1..Len(df)
    /\ row.Latitude = df[row.idx].Latitude
    /\ row.Longitude = df[row.idx].Longitude
    /\ row.Network_Operator = df[row.idx].Network_Operator
    /\ row.Network_Generation = df[row.idx].Network_Generation
    /\ row.distance_km = DistTo(qlat, qlon, row.idx)

\* the offsets -r, -r + 15, ... that do not exceed r
Offsets(r) == { d \in (-r)..r : (d + r) % 15 = 0 }

Listed(seq, x) == \E k \in 1..Len(seq) : seq[k] = x

\* a grid point is farther than km kilometres from every site of the table
FarFromAllSites(g, km) ==
    \A i \in 1..Len(df) : DistTo(g[1], g[2], i) > Km(km)

\* distance from a grid point to its nearest site (the table is not empty)
NearestSiteDistance(g) ==
    LET d == { DistTo(g[1], g[2], i) : i \in 1..Len(df) }
    IN  CHOOSE m \in d : \A o \in d : m <= o

----------------------------------------------------------------------------
(* C1 *)

\* C1: an Analyze run retains exactly the sites whose distance to the query
\* point is at most the radius (none within the radius is dropped, none
\* farther is kept, none is duplicated), and filtering the retained set
\* again at the same radius yields the identical set.
C1_RetainsExactlyWithinRadius ==
    analyze =>
        /\ Len(StoredNearby) = Cardinality(Idx(StoredNearby))
        /\ Idx(StoredNearby) =
               { i \in 1..Len(df) : DistTo(lat, lon, i) <= Km(radius_km) }
        /\ \A k \in 1..Len(StoredNearby) : IsRowOf(StoredNearby[k], lat, lon)
        /\ WithinRadius(StoredNearby, radius_km) = StoredNearby

\* an Analyze run that kept a site and dropped a site
C1_Witness ==
    /\ analyze
    /\ StoredNearby # << >>
    /\ Len(StoredNearby) < Len(df)

----------------------------------------------------------------------------
(* C2 *)

\* C2: whenever an analysis retains no site, the page reaches the
\* "no coverage" outcome without raising, for every site table including
\* the empty one.
C2_NoCoverageCompletes ==
    (Analysed /\ StoredNearby = << >>) =>
        /\ page.outcome = "no_coverage"
        /\ "exception" \notin page.shown

----------------------------------------------------------------------------
(* C3 *)

\* C3: in the grid scan a grid cell is recorded as uncovered if and only if
\* its distance to every site of the whole site table (not only the
\* retained sites) exceeds 8 km, whatever the radius.
C3_UncoveredIffFarFromAllSites ==
    page.outcome = "coverage" =>
        LET w == Get(page.view)
        IN  /\ \A dx, dy \in Offsets(w.radius_km) :
                   Listed(page.uncovered, <<w.lat + dx, w.lon + dy>>)
                       <=> FarFromAllSites(<<w.lat + dx, w.lon + dy>>, 8)
            /\ \A k \in 1..Len(page.uncovered) :
                   \E dx, dy \in Offsets(w.radius_km) :
                       page.uncovered[k] = <<w.lat + dx, w.lon + dy>>

\* a scan with an uncovered cell and with a cell that only a site outside
\* the radius covers
C3_Witness ==
    /\ page.outcome = "coverage"
    /\ page.uncovered # << >>
    /\ LET w == Get(page.view)
       IN  \E dx, dy \in Offsets(w.radius_km) :
               /\ ~ Listed(page.uncovered, <<w.lat + dx, w.lon + dy>>)
               /\ \A k \in 1..Len(StoredNearby) :
                      haversine(w.lat + dx, w.lon + dy, StoredNearby[k].Latitude,
                                StoredNearby[k].Longitude) > Km(8)

----------------------------------------------------------------------------
(* C4 *)

\* C4 as stated: the suggested tower is the uncovered cell of highest
\* score; no other uncovered cell is farther from its nearest site, and
\* among equal scores the smaller longitude wins.
C4_TowerHasHighestScore ==
    page.tower # None =>
        LET t == Get(page.tower)
        IN  \A k \in 1..Len(page.uncovered) :
                LET h == page.uncovered[k]
                IN  \/ NearestSiteDistance(h) < NearestSiteDistance(t)
                    \/ /\ NearestSiteDistance(h) = NearestSiteDistance(t)
                       /\ t[2] <= h[2]

\* C4 amended: the uncovered cells are listed in scan order (ascending
\* latitude, then ascending longitude) and the suggested tower is the first
\* of them: no uncovered cell has a smaller latitude, or the same latitude
\* and a smaller longitude.
C4_TowerIsFirstScanned ==
    (page.outcome = "coverage" /\ page.uncovered # << >>) =>
        /\ page.tower # None
        /\ Listed(page.uncovered, Get(page.tower))
        /\ \A k \in 1..Len(page.uncovered) :
               LET t == Get(page.tower)
                   h == page.uncovered[k]
               IN  t[1] < h[1] \/ (t[1] = h[1] /\ t[2] <= h[2])
        /\ \A j, k \in 1..Len(page.uncovered) :
               j < k =>
                   LET a == page.uncovered[j]
                       b == page.uncovered[k]
                   IN  a[1] < b[1] \/ (a[1] = b[1] /\ a[2] < b[2])

\* a tower was suggested although another uncovered cell is farther from
\* its nearest site
C4_Witness ==
    /\ page.tower # None
    /\ \E k \in 1..Len(page.uncovered) :
           NearestSiteDistance(page.uncovered[k])
               > NearestSiteDistance(Get(page.tower))

----------------------------------------------------------------------------
(* C5 *)

\* C5: a statement that coverage gaps were detected (gap count, suggested
\* tower, the operational summary's line) is shown only if the list of
\* uncovered cells is not empty.
C5_GapStatementsOnlyWithGaps ==
    (page.shown \cap GapStatements # {}) => page.uncovered # << >>

----------------------------------------------------------------------------
(* C6 *)

\* C6 as stated: the retained sites are in ascending order of distance to
\* the query point.
C6_SortedByDistance ==
    Analysed =>
        \A j, k \in 1..Len(StoredNearby) :
            j < k => StoredNearby[j].distance_km <= StoredNearby[k].distance_km

\* C6 amended: the retained sites are a function of the query and the site
\* table, in the order of their rows in the site table: each retained row
\* is its table row with its distance to the query point, and the row
\* labels increase along the sequence.
C6_RowOrder ==
    Analysed =>
        /\ \A k \in 1..Len(StoredNearby) :
               IsRowOf(StoredNearby[k], StoredLat, StoredLon)
        /\ \A j, k \in 1..Len(StoredNearby) :
               j < k => StoredNearby[j].idx < StoredNearby[k].idx

\* two retained sites of which the earlier is the farther one
C6_Witness ==
    /\ Analysed
    /\ \E j, k \in 1..Len(StoredNearby) :
           /\ j < k
           /\ StoredNearby[j].distance_km > StoredNearby[k].distance_km

----------------------------------------------------------------------------
(* C7 *)

\* the retained sites of an operator with a technology
SitesOf(op, t) ==
    SelectSeq(StoredNearby, LAMBDA row : /\ row.Network_Operator = op
                                         /\ row.Network_Generation = t)

\* the sum of their distances: with equal counts it orders the means
TotalDistance(op, t) ==
    SumSeq([k \in 1..Len(SitesOf(op, t)) |-> SitesOf(op, t)[k].distance_km])

TechsOf(op) ==
    { StoredNearby[k].Network_Generation :
        k \in { j \in 1..Len(StoredNearby) : StoredNearby[j].Network_Operator = op } }

----------------------------------------------------------------------------
(* C8 *)

\* C8 as stated: an Analyze run leaves the site table and the five session
\* keys as they were.
C8_AnalyzeChangesNothing ==
    [][analyze' => (df' = df /\ session_state' = session_state)]_vars

\* C8 amended: an Analyze run leaves the rows of the site table as they
\* were and overwrites the five session keys: analysis_done becomes True,
\* lat, lon and radius_km become the sidebar's values and nearby the sites
\* within that radius of that point.
C8_AnalyzeOverwritesSession ==
    [][analyze' =>
          /\ df' = df
          /\ session_state'.analysis_done = Some(TRUE)
          /\ session_state'.lat = Some(lat')
          /\ session_state'.lon = Some(lon')
          /\ session_state'.radius_km = Some(radius_km')
          /\ session_state'.nearby # None
          /\ Idx(Get(session_state'.nearby)) =
                 { i \in 1..Len(df) : DistTo(lat', lon', i) <= Km(radius_km') }
      ]_vars

\* an Analyze run at a point whose latitude and longitude differ, with a
\* retained site
C8_Witness ==
    /\ analyze
    /\ Analysed
    /\ lat # lon
    /\ StoredNearby # << >>

----------------------------------------------------------------------------
(* C9 *)

\* C9: for a site table whose sites (at least one) all lie within 5 km of
\* the analysed point P, an analysis at P with radius 25 km yields at least
\* one uncovered cell, and every uncovered cell is more than 8 km from
\* every site and lies in the scan box, at most 25 km-steps from P in
\* latitude and in longitude.
C9_ClusterLeavesGapsInBox ==
    ( /\ Analysed
      /\ StoredRadius = 25
      /\ df # << >>
      /\ \A i \in 1..Len(df) : DistTo(StoredLat, StoredLon, i) <= Km(5) )
    =>
        /\ page.uncovered # << >>
        /\ \A k \in 1..Len(page.uncovered) :
               LET g == page.uncovered[k]
               IN  /\ FarFromAllSites(g, 8)
                   /\ Abs(g[1] - StoredLat) <= 25
                   /\ Abs(g[2] - StoredLon) <= 25

\* an analysis at radius 25 of a table clustered within 5 km
C9_Witness ==
    /\ Analysed
    /\ StoredRadius = 25
    /\ Len(df) >= 2
    /\ \A i \in 1..Len(df) : DistTo(StoredLat, StoredLon, i) <= Km(5)
    /\ page.outcome = "coverage"
    /\ Len(page.uncovered) >= 2

----------------------------------------------------------------------------
(* C10 *)

\* what holds of the session and the page once an analysis was run
C10_State ==
    Analysed =>
        /\ session_state.nearby # None
        /\ session_state.lat # None
        /\ session_state.lon # None
        /\ session_state.radius_km # None
        /\ Len(StoredNearby) = Cardinality(Idx(StoredNearby))
        /\ Idx(StoredNearby) =
               { i \in 1..Len(df) :
                   DistTo(StoredLat, StoredLon, i) <= Km(StoredRadius) }
        /\ \A k \in 1..Len(StoredNearby) :
               IsRowOf(StoredNearby[k], StoredLat, StoredLon)
        /\ page.view = Some([lat |-> StoredLat, lon |-> StoredLon,
                             radius_km |-> StoredRadius])
        /\ page.total_sites \in {None, Some(Len(StoredNearby))}
        /\ \A k \in 1..Len(page.uncovered) :
               \E dx, dy \in Offsets(StoredRadius) :
                   page.uncovered[k] = <<StoredLat + dx, StoredLon + dy>>

\* C10: across any sequence of reruns, the session keys nearby, lat, lon
\* and radius_km are set whenever analysis_done is True, analysis_done
\* never returns from True to unset, the stored nearby set is the set of
\* sites within the stored radius of the stored point, and the page and
\* the gap scan use the stored values, not the sidebar's.
C10_SessionConsistent ==
    /\ []C10_State
    /\ [][Analysed => Analysed']_vars

\* results on display for a point and a radius the sidebar no longer shows
C10_Witness ==
    /\ Analysed
    /\ ~ analyze
    /\ StoredLat # lat
    /\ StoredRadius # radius_km
    /\ page.outcome = "coverage"
    /\ page.uncovered # << >>

====
